---- MODULE Spec2Model ----
(***************************************************************************)
(* Model of bot_get2fa.py: the ephemeral token store (EPHEMERAL, cleanup,  *)
(* store_ephemeral, get_ephemeral), the secret parser (try_parse_secret),  *)
(* the TOTP computation (compute_totp), the formatter (pretty_secret) and  *)
(* the Telegram handlers that call them (receive_secret,                   *)
(* callback_handler).                                                      *)
(*                                                                         *)
(* Time is counted in ticks, TicksPerSec ticks to the second, so that the  *)
(* sub-second readings of time.time() are represented.  A string is a      *)
(* sequence of one-character strings.  A Python tuple is a TLA+ tuple and  *)
(* None is the empty tuple.                                                *)
(***************************************************************************)
EXTENDS Integers, Sequences, FiniteSets, Bags, TLC

VARIABLES
    EPHEMERAL,   \* the dict token -> (secret, ts, label); None where no key
    issued,      \* history: token -> (secret, ts, label) of the put that returned it
    removed,     \* history: tokens whose key the Remove callback deleted
    now,         \* the latest reading of time.time(), in ticks
    lastSweep,   \* the reading the latest cleanup took (its local now, line 42)
    state,       \* the ConversationHandler state of the chat
    out,         \* what the last handler returned to the user
    err,         \* TRUE once a handler raised KeyError
    tasks,       \* SpecConc: the bag of handler coroutines in flight
    call         \* SpecTotp, SpecParse: a function call, its input and result

vars ==
    <<EPHEMERAL, issued, removed, now, lastSweep, state, out, err, tasks, call>>

----------------------------------------------------------------------------
(* Bounds of the model *)

TicksPerSec == 2
MaxTokens == 2
MaxTasks == 2
MaxWindows == 2
MaxLen == 3
MaxSecretLen == 6

(* Program constants *)

EPHEMERAL_TTL == 300
ASK_SECRET == 1
END == -1
Interval == 30
Group == 4

None == <<>>

(* Tokens 1..MaxTokens are the values uuid4 returns in this process; Stale *)
(* stands for every token that this process never issues (a button of an   *)
(* earlier run of the bot).                                                *)
Tokens == 1..MaxTokens
Stale == 0
AllTokens == Tokens \cup {Stale}

(* The instants at which the clock is read: the start, one tick later,     *)
(* one TTL after the start and one tick after that.                        *)
Instants ==
    {0, 1, EPHEMERAL_TTL * TicksPerSec, EPHEMERAL_TTL * TicksPerSec + 1}
LastInstant == EPHEMERAL_TTL * TicksPerSec + 1

----------------------------------------------------------------------------
(* Strings *)

IsSpace(c) == c \in {" ", "\t"}
IsB32Char(c) == c \in {"A", "a", "2"}

RECURSIVE lstrip(_)
lstrip(s) == IF s # <<>> /\ IsSpace(Head(s)) THEN lstrip(Tail(s)) ELSE s

RECURSIVE rstrip(_)
rstrip(s) ==
    IF s # <<>> /\ IsSpace(s[Len(s)]) THEN rstrip(SubSeq(s, 1, Len(s) - 1)) ELSE s

strip(s) == rstrip(lstrip(s))

RECURSIVE rstripPad(_)
rstripPad(s) ==
    IF s # <<>> /\ s[Len(s)] = "=" THEN rstripPad(SubSeq(s, 1, Len(s) - 1)) ELSE s

RECURSIVE replaceSpaces(_)
replaceSpaces(s) ==
    IF s = <<>> THEN <<>>
    ELSE IF Head(s) = " " THEN replaceSpaces(Tail(s))
    ELSE <<Head(s)>> \o replaceSpaces(Tail(s))


----------------------------------------------------------------------------
(* Input texts.  A message text is either plain (scheme "") or an otpauth  *)
(* URI, given by the components pyotp.parse_uri reads from it: the scheme, *)
(* the OTP type (the netloc), the account name (the path) and the value of *)
(* the secret query parameter (body).                                      *)

PlainText(chars) == [scheme |-> "", otptype |-> "", name |-> "", body |-> chars]
UriText(scheme, otptype, name, secret) ==
    [scheme |-> scheme, otptype |-> otptype, name |-> name, body |-> secret]

lower(scheme) == IF scheme = "OTPAUTH://" THEN "otpauth://" ELSE scheme

(* pyotp.parse_uri: raises for an unsupported type and for a missing or    *)
(* empty secret parameter; it does not validate the secret.                *)
parse_uri(text) ==
    IF text.otptype \in {"totp", "hotp"} /\ text.body # <<>>
    THEN [ok |-> TRUE, secret |-> text.body, name |-> text.name]
    ELSE [ok |-> FALSE, secret |-> <<>>, name |-> ""]

(* Mutant: ^[A-Z2-7]*=*$, the data part may be empty *)
BASE32_REStar(cand) ==
    \A i \in 1..Len(rstripPad(cand)) : IsB32Char(rstripPad(cand)[i])

(* Mutant: ^[A-Z2-7]+$, no padding allowed *)
BASE32_RENoPad(cand) ==
    /\ cand # <<>>
    /\ \A i \in 1..Len(cand) : IsB32Char(cand[i])

(* BASE32_RE = ^[A-Z2-7]+=*$ with re.I, matched with fullmatch *)
BASE32_RE(cand) ==
    LET data == rstripPad(cand)
    IN  /\ data # <<>>
        /\ \A i \in 1..Len(data) : IsB32Char(data[i])

try_parse_secret(text) ==
    IF lower(text.scheme) = "otpauth://"
    THEN LET obj == parse_uri(text)
         IN  IF obj.ok THEN <<obj.secret, obj.name>> ELSE None
    ELSE LET cand == replaceSpaces(strip(text.body))
         IN  IF BASE32_RE(cand) THEN <<cand, "">> ELSE None

----------------------------------------------------------------------------
(* compute_totp *)

(* pyotp's byte_secret pads the secret with "=" to a multiple of 8 and     *)
(* calls base64.b32decode(casefold=True), which raises unless every        *)
(* character before the trailing padding is in the alphabet and the number *)
(* of padding characters is 0, 1, 3, 4 or 6.                               *)
PadTo8(s) ==
    IF Len(s) % 8 = 0 THEN s
    ELSE s \o [i \in 1..(8 - (Len(s) % 8)) |-> "="]

B32Decodes(secret) ==
    LET s == PadTo8(secret)
        data == rstripPad(s)
        padchars == Len(s) - Len(data)
    IN  /\ \A i \in 1..Len(data) : IsB32Char(data[i])
        /\ Len(s) % 8 = 0
        /\ padchars \in {0, 1, 3, 4, 6}

(* Mutant: the countdown taken modulo the interval, 0 at a boundary *)
compute_totpMod(secret, tc, tr) ==
    IF ~B32Decodes(secret)
    THEN [ok |-> FALSE, code |-> None, rem |-> 0]
    ELSE [ok |-> TRUE,
          code |-> <<secret, tc \div (Interval * TicksPerSec)>>,
          rem |-> ((Interval * TicksPerSec - (tr % (Interval * TicksPerSec)))
                      \div TicksPerSec) % Interval]

(* tc is the clock reading of totp.now() (line 77), tr the reading of      *)
(* time.time() (line 79).  The code is kept abstract: the secret and the   *)
(* counter floor(tc / interval) it is computed from.                       *)
compute_totp(secret, tc, tr) ==
    IF ~B32Decodes(secret)
    THEN [ok |-> FALSE, code |-> None, rem |-> 0]
    ELSE [ok |-> TRUE,
          code |-> <<secret, tc \div (Interval * TicksPerSec)>>,
          rem |-> (Interval * TicksPerSec - (tr % (Interval * TicksPerSec)))
                      \div TicksPerSec]

----------------------------------------------------------------------------
(* pretty_secret *)

(* str.upper on a string of the model's characters *)
upper(s) == [i \in 1..Len(s) |-> IF s[i] = "a" THEN "A" ELSE s[i]]

(* [s[i:i+group] for i in range(0, len(s), group)] *)
chunks(s, group) ==
    [j \in 1..((Len(s) + group - 1) \div group) |->
        SubSeq(s, (j - 1) * group + 1,
               IF j * group < Len(s) THEN j * group ELSE Len(s))]

(* " ".join(parts) *)
RECURSIVE join(_)
join(parts) ==
    IF parts = <<>> THEN <<>>
    ELSE IF Len(parts) = 1 THEN parts[1]
    ELSE parts[1] \o <<" ">> \o join(Tail(parts))

pretty_secret(secret, group) ==
    LET s == replaceSpaces(upper(strip(secret)))
        body == rstripPad(s)
        pad == SubSeq(s, Len(body) + 1, Len(s))
        parts == chunks(body, group) \o (IF pad # <<>> THEN <<pad>> ELSE <<>>)
    IN  join(parts)

----------------------------------------------------------------------------
(* The ephemeral store *)

keys(E) == {k \in DOMAIN E : E[k] # None}

(* del E[k]: raises KeyError when k is no key *)
KeyError(E, k) == k \notin keys(E)
del(E, k) == [E EXCEPT ![k] = None]

(* Mutant: a record expires already at an age of exactly TTL *)
ExpiredAtTTL(rec, t) == t - rec[2] >= EPHEMERAL_TTL * TicksPerSec

Expired(rec, t) == t - rec[2] > EPHEMERAL_TTL * TicksPerSec

RECURSIVE cleanupLoop(_, _, _)
cleanupLoop(E, ks, t) ==
    IF ks = {} THEN E
    ELSE LET k == CHOOSE x \in ks : TRUE
         IN  cleanupLoop(IF Expired(E[k], t) THEN del(E, k) ELSE E, ks \ {k}, t)

(* Mutant: the sweep evicts nothing *)
cleanupNever(E, t) == E

(* Mutant: the sweep stops after the first expired entry *)
cleanupFirst(E, t) ==
    LET old == {k \in keys(E) : Expired(E[k], t)}
    IN  IF old = {} THEN E ELSE del(E, CHOOSE k \in old : TRUE)

cleanup(E, t) == cleanupLoop(E, keys(E), t)

(* uuid.uuid4().hex: a token that was never issued.  Tokens are            *)
(* interchangeable, so the least unused one stands for the fresh value.    *)
Unissued == {k \in Tokens : issued[k] = None}
(* Mutant: the least token that is no key now, issued before or not *)
uuid4Reuse ==
    CHOOSE k \in Tokens :
        /\ EPHEMERAL[k] = None
        /\ \A j \in Tokens : EPHEMERAL[j] = None => k <= j

uuid4 == CHOOSE k \in Unissued : \A j \in Unissued : k <= j

(* Mutant: the label is dropped on insertion *)
store_ephemeralNoLabel(E, token, secret, label, t1, t2) ==
    [cleanup(E, t1) EXCEPT ![token] = <<secret, t2, "">>]

(* t1 is the reading of cleanup (line 42), t2 the reading of line 50 *)
store_ephemeral(E, token, secret, label, t1, t2) ==
    [cleanup(E, t1) EXCEPT ![token] = <<secret, t2, label>>]

(* Mutant: sliding expiration, a read restarts the record's TTL *)
get_ephemeralSliding(E, token, t) ==
    LET swept == cleanup(E, t)
        touched == IF swept[token] = None THEN swept
                   ELSE [swept EXCEPT ![token] = <<swept[token][1], t, swept[token][3]>>]
    IN  [map |-> touched, ret |-> touched[token]]

get_ephemeral(E, token, t) ==
    LET swept == cleanup(E, t)
    IN  [map |-> swept, ret |-> swept[token]]

----------------------------------------------------------------------------
(* The handlers.  The application is built without concurrent_updates      *)
(* (line 200), so an update is handled to its end before the next one is   *)
(* taken: in Spec a handler is one action.  A handler that reads the clock *)
(* takes its readings as inputs, each no earlier than the one before.      *)

(* The texts a user sends in the dialog *)
Texts ==
    { PlainText(<<" ", "a", " ", "2">>),
      PlainText(<<"A">>),
      PlainText(<<"1">>),
      UriText("otpauth://", "totp", "L", <<"A", "2">>) }

(* A coroutine: where it is suspended and the message it is about to send *)
Awaiting(pc, reply) ==
    [pc |-> pc, msg |-> reply.msg, token |-> reply.token, rec |-> reply.rec]

Reply(msg, token, rec) == [msg |-> msg, token |-> token, rec |-> rec]

InitBot ==
    /\ EPHEMERAL = [k \in AllTokens |-> None]
    /\ issued = [k \in AllTokens |-> None]
    /\ removed = {}
    /\ now = 0
    /\ lastSweep = 0
    /\ state = END
    /\ out = Reply("", 0, None)
    /\ err = FALSE
    /\ tasks = EmptyBag

NoCall == [fn |-> ""]

Init == InitBot /\ call = NoCall

(* start_cmd *)
StartCmd ==
    /\ out' = Reply("start", 0, None)
    /\ UNCHANGED <<EPHEMERAL, issued, removed, now, lastSweep, state, err, tasks, call>>

(* get2fa_start: the entry point of the conversation *)
Get2faStart ==
    /\ state = END
    /\ state' = ASK_SECRET
    /\ out' = Reply("ask", 0, None)
    /\ UNCHANGED <<EPHEMERAL, issued, removed, now, lastSweep, err, tasks, call>>

(* cancel: a fallback of the conversation *)
Cancel ==
    /\ state = ASK_SECRET
    /\ state' = END
    /\ out' = Reply("cancelled", 0, None)
    /\ UNCHANGED <<EPHEMERAL, issued, removed, now, lastSweep, err, tasks, call>>

(* Mutant: the record is stored before the code is computed *)
receive_secretEager(E, text, t1, t2) ==
    LET parsed == try_parse_secret(text)
        kept == [put |-> FALSE, map |-> E, ret |-> ASK_SECRET, sweep |-> lastSweep]
    IN  IF parsed = None
        THEN kept @@ [reply |-> Reply("invalid", 0, None), clock |-> now]
        ELSE LET token == uuid4
                 rec == <<parsed[1], t2, parsed[2]>>
                 stored == store_ephemeral(E, token, parsed[1], parsed[2], t1, t2)
             IN  IF ~compute_totp(parsed[1], t1, t1).ok
                 THEN [put |-> FALSE, map |-> stored, ret |-> ASK_SECRET, sweep |-> t1,
                       reply |-> Reply("totp_failed", 0, None), clock |-> t2]
                 ELSE [put |-> TRUE, map |-> stored, ret |-> END, sweep |-> t1,
                       reply |-> Reply("code", token, rec), clock |-> t2]

(* receive_secret up to its await (lines 124-156): the dict afterwards,    *)
(* the message it is about to send, the state it will return, and the      *)
(* clock readings it took.  The readings of lines 77 and 79 decide only    *)
(* the text of the message, which Reply does not keep; both are t1 here.   *)
receive_secret(E, text, t1, t2) ==
    LET parsed == try_parse_secret(text)
        kept == [put |-> FALSE, map |-> E, ret |-> ASK_SECRET, sweep |-> lastSweep]
    IN  IF parsed = None
        THEN kept @@ [reply |-> Reply("invalid", 0, None), clock |-> now]
        ELSE IF ~compute_totp(parsed[1], t1, t1).ok
        THEN kept @@ [reply |-> Reply("totp_failed", 0, None), clock |-> t1]
        ELSE LET token == uuid4
                 rec == <<parsed[1], t2, parsed[2]>>
             IN  [put |-> TRUE,
                  map |-> store_ephemeral(E, token, parsed[1], parsed[2], t1, t2),
                  ret |-> END,
                  sweep |-> t1,
                  reply |-> Reply("code", token, rec),
                  clock |-> t2]

(* A text that gets as far as store_ephemeral *)
Stores(text) ==
    /\ try_parse_secret(text) # None
    /\ compute_totp(try_parse_secret(text)[1], 0, 0).ok

ReceiveSecret(text, t1, t2) ==
    /\ state = ASK_SECRET
    /\ Stores(text) => Unissued # {}
    /\ LET r == receive_secret(EPHEMERAL, text, t1, t2)
       IN  /\ EPHEMERAL' = r.map
           /\ issued' = IF r.put THEN [issued EXCEPT ![r.reply.token] = r.reply.rec]
                        ELSE issued
           /\ now' = r.clock
           /\ lastSweep' = r.sweep
           /\ out' = r.reply
           /\ state' = r.ret
    /\ UNCHANGED <<removed, err, tasks, call>>

(* Mutant: a miss on a removed token gets a message of its own *)
refreshTelling(E, token, t) ==
    LET r == get_ephemeral(E, token, t)
    IN  [map |-> r.map,
         reply |-> IF r.ret = None
                   THEN Reply(IF token \in removed THEN "removed_earlier" ELSE "expired",
                              token, None)
                   ELSE IF ~compute_totp(r.ret[1], t, t).ok
                   THEN Reply("invalid_now", token, r.ret)
                   ELSE Reply("refreshed", token, r.ret)]

(* The refresh branch up to its await (lines 166-188) *)
refresh(E, token, t) ==
    LET r == get_ephemeral(E, token, t)
    IN  [map |-> r.map,
         reply |-> IF r.ret = None THEN Reply("expired", token, None)
                   ELSE IF ~compute_totp(r.ret[1], t, t).ok
                   THEN Reply("invalid_now", token, r.ret)
                   ELSE Reply("refreshed", token, r.ret)]

(* callback_handler, data = "refresh:<token>" *)
Refresh(token, t) ==
    /\ LET r == refresh(EPHEMERAL, token, t)
       IN  /\ EPHEMERAL' = r.map
           /\ out' = r.reply
    /\ now' = t
    /\ lastSweep' = t
    /\ UNCHANGED <<issued, removed, state, err, tasks, call>>

(* Mutant: del without the membership test *)
expireUnchecked(E, token) ==
    [map |-> del(E, token), raised |-> KeyError(E, token)]

(* Mutant: the expire branch answers without deleting *)
expireKeeps(E, token) == [map |-> E, raised |-> FALSE]

(* The expire branch up to its await (lines 191-193): the dict afterwards  *)
(* and whether del raised.                                                 *)
expire(E, token) ==
    IF token \in keys(E)
    THEN [map |-> del(E, token), raised |-> KeyError(E, token)]
    ELSE [map |-> E, raised |-> FALSE]

(* What the expire branch sends; nothing when it raised *)
expireReply(r, token) ==
    IF r.raised THEN Reply("", token, None) ELSE Reply("removed", token, None)

(* callback_handler, data = "expire:<token>" *)
Remove(token) ==
    /\ LET r == expire(EPHEMERAL, token)
       IN  /\ EPHEMERAL' = r.map
           /\ err' = (err \/ r.raised)
           /\ out' = expireReply(r, token)
    /\ removed' = IF token \in keys(EPHEMERAL) THEN removed \cup {token}
                  ELSE removed
    /\ UNCHANGED <<issued, now, lastSweep, state, tasks, call>>

(* callback_handler, any other data *)
Unknown ==
    /\ out' = Reply("unknown", 0, None)
    /\ UNCHANGED <<EPHEMERAL, issued, removed, now, lastSweep, state, err, tasks, call>>

Later(t) == {u \in Instants : u >= t}

(* The tokens a callback can name: those of the buttons sent, and Stale *)
Named == {k \in AllTokens : k = Stale \/ issued[k] # None}

Next ==
    \/ StartCmd
    \/ Get2faStart
    \/ Cancel
    \/ \E text \in Texts : \E t1 \in Later(now) : \E t2 \in Later(t1) :
           ReceiveSecret(text, t1, t2)
    \/ \E token \in Named : \E t \in Later(now) : Refresh(token, t)
    \/ \E token \in Named : Remove(token)
    \/ Unknown

Spec == Init /\ [][Next]_vars

----------------------------------------------------------------------------
(* Time passing while no update arrives.  Nothing in the program runs on   *)
(* a timer: the clock moves on and the store is left as it is.  SpecLive   *)
(* adds this to the handlers; the clock is the only thing that is bound to *)
(* go on, since updates arrive only when a user sends one.                 *)
Tick ==
    /\ \E t \in Instants : t > now /\ now' = t
    /\ UNCHANGED <<EPHEMERAL, issued, removed, lastSweep, state, out, err, tasks, call>>

NextLive == Next \/ Tick

SpecLive == Init /\ [][NextLive]_vars /\ WF_vars(Tick)

----------------------------------------------------------------------------
(* The handlers as coroutines.  SpecConc is the program with updates       *)
(* handled concurrently: a handler runs from one await to the next without *)
(* interruption (one event loop), and at an await any other handler may    *)
(* run.  A callback first awaits q.answer(), then runs its branch up to    *)
(* the await of q.edit_message_text.                                       *)

Coroutines == BagToSet(tasks)
Spawn(c) == tasks (+) SetToBag({c})
Resume(c, d) == (tasks (-) SetToBag({c})) (+) SetToBag({d})
Finish(c) == tasks (-) SetToBag({c})

(* callback_handler is called and suspends in q.answer() (line 163) *)
CallbackStart(kind, token) ==
    /\ BagCardinality(tasks) < MaxTasks
    /\ tasks' = Spawn(Awaiting(kind, Reply("", token, None)))
    /\ UNCHANGED <<EPHEMERAL, issued, removed, now, lastSweep, state, out, err, call>>

(* q.answer() returned: the refresh branch up to line 189 *)
RefreshBody(c, t) ==
    /\ c.pc = "refresh"
    /\ LET r == refresh(EPHEMERAL, c.token, t)
       IN  /\ EPHEMERAL' = r.map
           /\ tasks' = Resume(c, Awaiting("edit", r.reply))
    /\ now' = t
    /\ lastSweep' = t
    /\ UNCHANGED <<issued, removed, state, out, err, call>>

(* q.answer() returned: the expire branch up to line 194 *)
RemoveBody(c) ==
    /\ c.pc = "expire"
    /\ LET r == expire(EPHEMERAL, c.token)
       IN  /\ EPHEMERAL' = r.map
           /\ err' = (err \/ r.raised)
           /\ tasks' = IF r.raised THEN Finish(c)
                       ELSE Resume(c, Awaiting("edit", expireReply(r, c.token)))
    /\ removed' = IF c.token \in keys(EPHEMERAL) THEN removed \cup {c.token}
                  ELSE removed
    /\ UNCHANGED <<issued, now, lastSweep, state, out, call>>

(* q.edit_message_text returned: the message is shown, the handler ends *)
CallbackDone(c) ==
    /\ c.pc = "edit"
    /\ out' = Reply(c.msg, c.token, c.rec)
    /\ tasks' = Finish(c)
    /\ UNCHANGED <<EPHEMERAL, issued, removed, now, lastSweep, state, err, call>>

(* The inputs of SpecConc: one text that is stored and one that is not,    *)
(* clock readings at the start and past one TTL, and callbacks from the    *)
(* buttons this process sent.  receive_secret has                          *)
(* its only await after store_ephemeral, and no callback can name the new  *)
(* token before the reply with its buttons is sent, so ReceiveSecret stays *)
(* one action.                                                             *)
ConcTexts == {PlainText(<<" ", "a", " ", "2">>), PlainText(<<"1">>)}
ConcLater(t) == {u \in {0, EPHEMERAL_TTL * TicksPerSec + 1} : u >= t}
ConcNamed == Named \ {Stale}

NextConc ==
    \/ Get2faStart
    \/ \E text \in ConcTexts : \E t1 \in ConcLater(now) : \E t2 \in ConcLater(t1) :
           ReceiveSecret(text, t1, t2)
    \/ \E kind \in {"refresh", "expire"} : \E token \in ConcNamed :
           CallbackStart(kind, token)
    \/ \E c \in Coroutines : \E t \in ConcLater(now) : RefreshBody(c, t)
    \/ \E c \in Coroutines : RemoveBody(c)
    \/ \E c \in Coroutines : CallbackDone(c)

SpecConc == Init /\ [][NextConc]_vars

----------------------------------------------------------------------------
(* compute_totp on its own.  SpecTotp calls it at every tick of the first  *)
(* MaxWindows intervals; between its two clock readings the clock stays or *)
(* moves on by a tick.                                                     *)

MaxTick == MaxWindows * Interval * TicksPerSec
TotpSecrets == {<<"a", "2">>, <<"A">>}

ComputeTotp(secret, tc, tr) ==
    /\ call' = [fn |-> "compute_totp", secret |-> secret, tc |-> tc, tr |-> tr,
                result |-> compute_totp(secret, tc, tr)]
    /\ now' = tr
    /\ UNCHANGED <<EPHEMERAL, issued, removed, lastSweep, state, out, err, tasks>>

NextTotp ==
    \E secret \in TotpSecrets : \E tc \in now..MaxTick :
        \E tr \in {tc, tc + 1} \cap (0..MaxTick) : ComputeTotp(secret, tc, tr)

SpecTotp == Init /\ [][NextTotp]_vars

----------------------------------------------------------------------------
(* try_parse_secret on its own.  SpecParse starts from any text of at most *)
(* MaxLen characters, or an otpauth URI, parses it and, as receive_secret  *)
(* does, hands an accepted secret to compute_totp.                         *)

Alphabet == {"A", "a", "2", "1", "=", " ", "\t"}
Strings(n) == UNION {[1..m -> Alphabet] : m \in 0..n}
UriTexts ==
    {UriText(scheme, otptype, name, secret) :
        scheme \in {"otpauth://", "OTPAUTH://"}, otptype \in {"totp", "hotp", "x"},
        name \in {"", "L"}, secret \in Strings(1)}
ParseTexts == {PlainText(chars) : chars \in Strings(MaxLen)} \cup UriTexts

InitParse ==
    /\ InitBot
    /\ \E text \in ParseTexts : call = [fn |-> "text", text |-> text]

TryParse ==
    /\ call.fn = "text"
    /\ call' = [fn |-> "try_parse_secret", text |-> call.text,
                result |-> try_parse_secret(call.text)]
    /\ UNCHANGED <<EPHEMERAL, issued, removed, now, lastSweep, state, out, err, tasks>>

TotpOfParsed ==
    /\ call.fn = "try_parse_secret"
    /\ call.result # None
    /\ call' = [fn |-> "compute_totp", secret |-> call.result[1], tc |-> now,
                tr |-> now, result |-> compute_totp(call.result[1], now, now)]
    /\ UNCHANGED <<EPHEMERAL, issued, removed, now, lastSweep, state, out, err, tasks>>

NextParse == TryParse \/ TotpOfParsed

SpecParse == InitParse /\ [][NextParse]_vars

----------------------------------------------------------------------------
(* pretty_secret on its own.  SpecPretty starts from any string of at most *)
(* MaxSecretLen characters and formats it in groups of Group, the default  *)
(* of the parameter and the value every caller uses.                       *)

SecretAlphabet == {"a", "2", "=", " ", "\t"}
Secrets == UNION {[1..m -> SecretAlphabet] : m \in 0..MaxSecretLen}

InitPretty ==
    /\ InitBot
    /\ \E secret \in Secrets : call = [fn |-> "secret", secret |-> secret]

PrettySecret ==
    /\ call.fn = "secret"
    /\ call' = [fn |-> "pretty_secret", secret |-> call.secret,
                result |-> pretty_secret(call.secret, Group)]
    /\ UNCHANGED <<EPHEMERAL, issued, removed, now, lastSweep, state, out, err, tasks>>

NextPretty == PrettySecret

SpecPretty == InitPretty /\ [][NextPretty]_vars

----------------------------------------------------------------------------
(* Properties of the store, checked under Spec.  In Spec now is the        *)
(* reading of the latest handler and lastSweep that of its cleanup.        *)

TTL == EPHEMERAL_TTL * TicksPerSec
GetMsgs == {"expired", "refreshed", "invalid_now"}
IsGet(tok) == out.msg \in GetMsgs /\ out.token = tok
Age(tok) == now - issued[tok][2]

(* C1: a get_ephemeral on a token more than 300 s after the put that       *)
(* returned it returns None.                                               *)
C1_Expiry ==
    \A tok \in Tokens :
        (IsGet(tok) /\ issued[tok] # None /\ Age(tok) > TTL) => out.rec = None

(* A get on an expired, never removed token has answered, while another    *)
(* token was issued too.                                                   *)
C1_Witness ==
    \E tok \in Tokens :
        /\ IsGet(tok) /\ issued[tok] # None /\ Age(tok) > TTL
        /\ tok \notin removed
        /\ out.msg = "expired"
        /\ \E other \in Tokens \ {tok} : issued[other] # None

(* C2: the get_ephemeral that follows a store_ephemeral on the returned    *)
(* token, at an age of at most 300 s, returns the secret and the label     *)
(* that were stored.                                                       *)
C2_RoundTrip ==
    [][(/\ out.msg = "code"
        /\ out'.msg \in GetMsgs
        /\ out'.token = out.token
        /\ now' - out.rec[2] <= TTL)
       => (/\ out'.rec # None
           /\ out'.rec[1] = out.rec[1]
           /\ out'.rec[3] = out.rec[3])]_vars

(* A get at the very reading of the put has returned the stored record,    *)
(* label included.                                                         *)
C2_Witness ==
    \E tok \in Tokens :
        /\ IsGet(tok) /\ issued[tok] # None
        /\ now = issued[tok][2]
        /\ out.rec = issued[tok]
        /\ out.rec[3] = "L"

(* C3: a token that was put and never removed is in the store as long as   *)
(* its age is at most 300 s, and a get_ephemeral on it returns its record. *)
C3_Available ==
    \A tok \in Tokens :
        (issued[tok] # None /\ tok \notin removed /\ Age(tok) <= TTL)
        => /\ EPHEMERAL[tok] = issued[tok]
           /\ IsGet(tok) => out.rec = issued[tok]

(* A get at an age of exactly 300 s has returned the record, after a sweep *)
(* that evicted an older one.                                              *)
C3_Witness ==
    \E tok \in Tokens :
        /\ IsGet(tok) /\ issued[tok] # None /\ Age(tok) = TTL
        /\ out.rec = issued[tok]
        /\ \E other \in Tokens \ {tok} :
               /\ issued[other] # None /\ other \notin removed
               /\ EPHEMERAL[other] = None

(* C4: after Remove deleted a token every get_ephemeral on it returns      *)
(* None; Remove never raises, removes the named key, and leaves the store  *)
(* unchanged when the token is absent.                                     *)
C4_Delete ==
    [][/\ \A tok \in removed' : EPHEMERAL'[tok] = None
       /\ (out'.msg \in GetMsgs /\ out'.token \in removed') => out'.rec = None
       /\ ~err'
       /\ \A tok \in AllTokens :
              Remove(tok) =>
                  /\ out'.msg = "removed"
                  /\ EPHEMERAL'[tok] = None
                  /\ \A k \in AllTokens \ {tok} : EPHEMERAL'[k] = EPHEMERAL[k]
                  /\ EPHEMERAL[tok] = None => EPHEMERAL' = EPHEMERAL]_vars

(* A get on a removed token, within its TTL, has answered not-found *)
C4_Witness ==
    \E tok \in removed :
        IsGet(tok) /\ Age(tok) <= TTL /\ out.rec = None /\ ~err

(* C5: after the sweep of a store_ephemeral or get_ephemeral call no       *)
(* record of the map is older than 300 s as of the reading of that sweep.  *)
C5_Sweep ==
    \A k \in keys(EPHEMERAL) : lastSweep - EPHEMERAL[k][2] <= TTL

(* A get has swept two expired records, one of them not the one it named *)
C5_Witness ==
    \E tok \in Tokens : \E other \in Tokens \ {tok} :
        /\ IsGet(tok)
        /\ lastSweep = now
        /\ \A k \in {tok, other} :
               /\ issued[k] # None /\ k \notin removed
               /\ EPHEMERAL[k] = None
               /\ lastSweep - issued[k][2] > TTL

(* C7: get_ephemeral and Refresh change no record and issue no token: a    *)
(* record of the map is always the tuple that was put.                     *)
C7_NoSliding ==
    [][/\ out'.msg \in GetMsgs =>
              /\ issued' = issued
              /\ \A k \in AllTokens :
                     EPHEMERAL'[k] = None \/ EPHEMERAL'[k] = EPHEMERAL[k]
       /\ \A k \in keys(EPHEMERAL') : EPHEMERAL'[k] = issued'[k]]_vars

(* A Refresh has found a record some time after its insertion, and the     *)
(* record is still the one that was put.                                   *)
C7_Witness ==
    \E tok \in Tokens :
        /\ out.msg = "refreshed" /\ out.token = tok
        /\ now > issued[tok][2]
        /\ EPHEMERAL[tok] = issued[tok]

----------------------------------------------------------------------------
(* Eviction, checked under SpecLive *)

(* C6 as stated: every record inserted early enough for its TTL to elapse  *)
(* is eventually removed from the map.                                     *)
C6_EventuallyEvicted ==
    \A tok \in Tokens :
        (EPHEMERAL[tok] # None /\ issued[tok][2] + TTL < LastInstant)
            ~> (EPHEMERAL[tok] = None)

(* C6 amended: a record leaves the map exactly in a step that is the       *)
(* Remove of its token or a store_ephemeral / get_ephemeral whose sweep     *)
(* reads the clock more than 300 s after the insertion; in every other     *)
(* step, however late, it stays.                                           *)
C6_EvictedOnlyByCall ==
    [][\A tok \in Tokens :
           EPHEMERAL[tok] # None =>
               ((EPHEMERAL'[tok] = None)
                <=> \/ lastSweep' - EPHEMERAL[tok][2] > TTL
                    \/ (out'.msg = "removed" /\ out'.token = tok /\ out' # out))]_vars

(* A record is still in the map more than 300 s after its insertion *)
C6_Witness ==
    \E tok \in Tokens :
        EPHEMERAL[tok] # None /\ now - EPHEMERAL[tok][2] > TTL

----------------------------------------------------------------------------
(* Concurrent handlers, checked under SpecConc *)

(* C8: under every interleaving of the handlers at their awaits no del     *)
(* raises KeyError, every record of the map is a whole record as it was    *)
(* put, the map holds no record that the latest sweep should have evicted, *)
(* and every lookup has returned None or the whole record of its token.    *)
C8_Atomic ==
    /\ ~err
    /\ \A k \in keys(EPHEMERAL) :
           /\ EPHEMERAL[k] = issued[k]
           /\ lastSweep - EPHEMERAL[k][2] <= TTL
    /\ \A c \in Coroutines :
           c.pc = "edit" =>
               \/ c.msg = "refreshed" /\ c.rec = issued[c.token]
               \/ c.msg \in {"expired", "removed"} /\ c.rec = None

(* Two Remove handlers of one token have both run their branch without an  *)
(* error.                                                                  *)
C8_Witness ==
    \E tok \in Tokens :
        /\ CopiesIn(Awaiting("edit", Reply("removed", tok, None)), tasks) = 2
        /\ tok \in removed
        /\ ~err

----------------------------------------------------------------------------
(* compute_totp, checked under SpecTotp *)

(* C9 as stated: secondsRemaining is in 1..interval at every instant,      *)
(* whole second or not.                                                    *)
C9_RemInRange ==
    (call.fn = "compute_totp" /\ call.result.ok)
        => call.result.rem \in 1..Interval

----------------------------------------------------------------------------
(* try_parse_secret, checked under SpecParse *)

(* C10 as stated: every secret try_parse_secret accepts is non-empty and   *)
(* decodes under Base32, so that compute_totp does not fail on it.         *)
C10_AcceptedDecodes ==
    /\ (call.fn = "try_parse_secret" /\ call.result # None)
           => (call.result[1] # <<>> /\ B32Decodes(call.result[1]))
    /\ (call.fn = "compute_totp") => call.result.ok

----------------------------------------------------------------------------
(* try_parse_secret on plain inputs, checked under SpecParse *)

(* The input without any of its whitespace characters *)
RECURSIVE StripAllWhitespace(_)
StripAllWhitespace(s) ==
    IF s = <<>> THEN <<>>
    ELSE IF IsSpace(Head(s)) THEN StripAllWhitespace(Tail(s))
    ELSE <<Head(s)>> \o StripAllWhitespace(Tail(s))

(* One or more characters of the Base32 alphabet, then only "=" *)
HasBase32Shape(s) ==
    \E n \in 1..Len(s) :
        /\ \A i \in 1..n : IsB32Char(s[i])
        /\ \A i \in (n + 1)..Len(s) : s[i] = "="

ParsedPlain == call.fn = "try_parse_secret" /\ call.text.scheme = ""

(* C11 as stated: a plain input whose remainder, after all its whitespace  *)
(* is stripped, has the Base32 shape is accepted, and the remainder is     *)
(* returned as the secret with an empty label.                             *)
C11_AcceptsStripped ==
    ParsedPlain =>
        LET rest == StripAllWhitespace(call.text.body)
        IN  HasBase32Shape(rest) => call.result = <<rest, "">>

C16_ParseIdempotent ==
    (ParsedPlain /\ HasBase32Shape(call.text.body)) =>
        /\ call.result = <<call.text.body, "">>
        /\ try_parse_secret(PlainText(call.result[1])) = call.result

(* A padded, mixed-case Base32 string has been parsed to itself *)
C16_Witness ==
    /\ ParsedPlain
    /\ call.text.body = <<"a", "2", "=">>
    /\ call.result = <<call.text.body, "">>

----------------------------------------------------------------------------
(* pretty_secret, checked under SpecPretty *)

(* C13 as stated: the output is the upper-cased input without its          *)
(* whitespace, its body cut into chunks of exactly Group characters (the   *)
(* last may be shorter, none is empty), then the run of trailing "=" if    *)
(* there is one, all joined by single spaces; without its spaces the       *)
(* output is the upper-cased, whitespace-free input.                       *)
C13_Formats ==
    call.fn = "pretty_secret" =>
        LET u == StripAllWhitespace(upper(call.secret))
            body == rstripPad(u)
            pad == SubSeq(u, Len(body) + 1, Len(u))
            parts == chunks(body, Group)
        IN  /\ \A j \in 1..Len(parts) :
                   /\ parts[j] # <<>>
                   /\ j < Len(parts) => Len(parts[j]) = Group
            /\ call.result = join(parts \o (IF pad # <<>> THEN <<pad>> ELSE <<>>))
            /\ replaceSpaces(call.result) = u

----------------------------------------------------------------------------
(* The countdown of compute_totp, checked under SpecTotp *)

(* C14: at a whole second t the countdown is interval - (t mod interval):  *)
(* it falls by 1 with every second of a window, is 1 in the last second    *)
(* and is interval again at the boundary.                                  *)
C14_Countdown ==
    (call.fn = "compute_totp" /\ call.result.ok /\ call.tr % TicksPerSec = 0) =>
        LET t == call.tr \div TicksPerSec
        IN  /\ call.result.rem = Interval - (t % Interval)
            /\ t % Interval = Interval - 1 => call.result.rem = 1
            /\ t % Interval = 0 => call.result.rem = Interval
            /\ t % Interval # 0 =>
                   call.result.rem =
                       compute_totp(call.secret, call.tc, call.tr - TicksPerSec).rem - 1

(* compute_totp has run exactly at the first boundary and reports a full   *)
(* interval.                                                               *)
C14_Witness ==
    /\ call.fn = "compute_totp" /\ call.result.ok
    /\ call.tr = Interval * TicksPerSec
    /\ call.result.rem = Interval

(* C17 as stated: the code and the countdown of one call are those of one  *)
(* instant of the call, also when the clock passes a boundary between the  *)
(* two readings.                                                           *)
C17_OneInstant ==
    (call.fn = "compute_totp" /\ call.result.ok) =>
        \E n \in call.tc..call.tr :
            call.result = compute_totp(call.secret, n, n)

----------------------------------------------------------------------------
(* Misses, checked under Spec *)

(* The tokens that are absent at a reading t, for whichever reason: never  *)
(* issued, removed, or expired.                                            *)
Missing(t) ==
    {Stale} \cup removed
        \cup {k \in Tokens : issued[k] # None /\ t - issued[k][2] > TTL}

(* C15: a get_ephemeral and a Refresh give the same result for every       *)
(* absent token, whatever the reason of its absence: None and the one      *)
(* "expired or was removed" message, and the Refresh that has just         *)
(* answered for such a token has shown exactly that.                       *)
C15_SameMiss ==
    /\ \A t \in Later(now) : \A k \in Missing(t) :
           /\ get_ephemeral(EPHEMERAL, k, t).ret = None
           /\ refresh(EPHEMERAL, k, t).reply.msg = "expired"
           /\ refresh(EPHEMERAL, k, t).reply.rec = None
    /\ \A k \in Missing(now) : IsGet(k) => (out.msg = "expired" /\ out.rec = None)

(* A Refresh has answered for an expired token while another token is     *)
(* absent because it was removed within its TTL, and Stale was never       *)
(* issued.                                                                 *)
C15_Witness ==
    \E tok \in Tokens : \E other \in removed \ {tok} :
        /\ IsGet(tok) /\ out.msg = "expired"
        /\ issued[tok] # None /\ tok \notin removed /\ Age(tok) > TTL
        /\ Age(other) <= TTL
        /\ issued[Stale] = None

----------------------------------------------------------------------------
(* receive_secret and the frame of the store operations, checked under     *)
(* Spec                                                                    *)

(* C18: receive_secret inserts a record, exactly one and under a token not *)
(* issued before, only when the text parsed and the code was computed, and *)
(* then ends the dialog; otherwise it leaves the store and the issued      *)
(* tokens as they were and stays in ASK_SECRET.  Every secret in the store *)
(* is one that compute_totp accepts.  A step of receive_secret is known by *)
(* its text; its clock readings are those the step leaves in lastSweep and *)
(* now.                                                                    *)
C18_OnlyOnSuccess ==
    [][/\ \A text \in Texts :
              (/\ out'.msg \in {"invalid", "totp_failed", "code"}
               /\ ReceiveSecret(text, IF out'.msg = "code" THEN lastSweep' ELSE now', now'))
              =>
                  LET parsed == try_parse_secret(text)
                  IN  IF parsed # None /\ B32Decodes(parsed[1])
                      THEN /\ \E tok \in Tokens :
                                  /\ issued[tok] = None
                                  /\ keys(EPHEMERAL') \ keys(EPHEMERAL) = {tok}
                                  /\ EPHEMERAL'[tok][1] = parsed[1]
                                  /\ EPHEMERAL'[tok][3] = parsed[2]
                                  /\ issued' = [issued EXCEPT ![tok] = EPHEMERAL'[tok]]
                           /\ state' = END
                      ELSE /\ EPHEMERAL' = EPHEMERAL
                           /\ issued' = issued
                           /\ state' = ASK_SECRET
       /\ \A k \in keys(EPHEMERAL') : compute_totp(EPHEMERAL'[k][1], now', now').ok]_vars

(* A text that parsed but gave no code was answered while the store held a *)
(* record, and the dialog goes on.                                         *)
C18_Witness ==
    /\ out.msg = "totp_failed"
    /\ state = ASK_SECRET
    /\ keys(EPHEMERAL) # {}

(* C19: store_ephemeral adds exactly one key, one that no earlier put      *)
(* returned, and changes no other unexpired record; get_ephemeral changes  *)
(* no unexpired record; Remove changes no record but that of the named     *)
(* token.  The reading of a sweep is the one the step leaves in lastSweep. *)
C19_Frame ==
    [][/\ \A text \in Texts :
              (out'.msg = "code" /\ ReceiveSecret(text, lastSweep', now')) =>
                  /\ issued[out'.token] = None
                  /\ keys(EPHEMERAL') \ keys(EPHEMERAL) = {out'.token}
                  /\ \A k \in keys(EPHEMERAL) :
                         lastSweep' - EPHEMERAL[k][2] <= TTL
                             => EPHEMERAL'[k] = EPHEMERAL[k]
       /\ (out'.msg \in GetMsgs /\ Refresh(out'.token, now')) =>
                  \A k \in keys(EPHEMERAL) :
                      now' - EPHEMERAL[k][2] <= TTL => EPHEMERAL'[k] = EPHEMERAL[k]
       /\ \A tok \in AllTokens :
              Remove(tok) =>
                  \A k \in AllTokens \ {tok} : EPHEMERAL'[k] = EPHEMERAL[k]]_vars

(* A put has returned a new token after an earlier token had left the      *)
(* store, and an older record is still there as it was put.                *)
C19_Witness ==
    /\ out.msg = "code"
    /\ EPHEMERAL[out.token] = out.rec
    /\ \E gone \in removed : gone # out.token

----------------------------------------------------------------------------
(* Remove against Refresh, checked under SpecConc *)

(* The Remove that deleted tok has sent its confirmation: no handler is    *)
(* left that still has to send one for tok.                                *)
RemoveConfirmed(tok) ==
    /\ tok \in removed
    /\ CopiesIn(Awaiting("edit", Reply("removed", tok, None)), tasks) = 0

====
